---- MODULE Spec2Model ----
(***************************************************************************)
(* A model of the sqlizator backend of squery: the reply interpreter of a  *)
(* Connection (connection.py), the bounded blocking ConnectionPool         *)
(* (pool.py, connection.py) and the transaction scope of the Backend       *)
(* (backend.py).                                                           *)
(*                                                                         *)
(* The specifications share the pure operators of the reply interpreter:   *)
(*   Spec       the pool used by cooperatively scheduled tasks;            *)
(*   SpecReply  one connection, one command at a time, with the frames of  *)
(*              the reply and the socket reads spelled out;                *)
(*   SpecConv   the datetime converters applied to one value;              *)
(*   SpecFacade the Database facade and its error handlers (squery.py).    *)
(***************************************************************************)
EXTENDS Integers, Sequences, FiniteSets, TLC

\* ------------------------------------------------------------------ bounds
\* The number of tasks, the longest reply, the latest instant (seconds since
\* the epoch) converted and the number of error callbacks; PoolSizes are the values of maxsize the pool is
\* constructed with.
NTasks == 2
MaxFrames == 4
MaxSecs == 12
NCallbacks == 3
PoolSizes == {1, 2}

\* ------------------------------------------------- constants of Connection
EXECUTE == 1
EXECUTE_AND_FETCH == 2
OK == 0
UNKNOWN_ERROR == 1
INVALID_QUERY == 5
DEFAULT_MESSAGE == "Unknown error."
SQLITE_DATE_TYPES == {"date", "datetime", "timestamp"}

\* ------------------------------------------------------------ wire values
\* A decoded msgpack value inside an array frame: a scalar (an integer v), or
\* a two-element list [name, type] (what a column description looks like).
Scalar(n) == [isList |-> FALSE, name |-> "", type |-> "", v |-> n]
Pair(n, t) == [isList |-> TRUE, name |-> n, type |-> t, v |-> 0]

\* Scalars that are not integers: msgpack nil and the empty string (both
\* falsy in Python, like 0).
Null == [isList |-> FALSE, name |-> "", type |-> "nil", v |-> 0]
EmptyText == [isList |-> FALSE, name |-> "", type |-> "str", v |-> 0]

\* A frame: one top-level decoded value, a dict (status object) or an array.
StatusFrame(hs, s, hm, m) ==
    [isDict |-> TRUE, hasStatus |-> hs, status |-> s, hasMessage |-> hm,
     message |-> m, items |-> <<>>]
ArrayFrame(xs) ==
    [isDict |-> FALSE, hasStatus |-> FALSE, status |-> 0, hasMessage |-> FALSE,
     message |-> "", items |-> xs]

OkFrame == StatusFrame(TRUE, OK, FALSE, "")
ErrFrame == StatusFrame(TRUE, INVALID_QUERY, TRUE, "bad query")
ErrNoMessageFrame == StatusFrame(TRUE, INVALID_QUERY, FALSE, "")
NoStatusFrame == StatusFrame(FALSE, 0, FALSE, "")

MetaA == ArrayFrame(<<Pair("a", "integer")>>)
MetaAB == ArrayFrame(<<Pair("a", "integer"), Pair("b", "timestamp")>>)

\* _meta_info = None
NoMeta == <<>>

\* -------------------------------------------------- native (decoded) values
Raw(x) == [kind |-> "raw", val |-> x]
DateTimeUTC(secs) == [kind |-> "datetime", val |-> Scalar(secs)]
DateTimeNaive(secs) == [kind |-> "naive", val |-> Scalar(secs)]
PyNone == [kind |-> "none", val |-> Scalar(0)]
ConvError == [kind |-> "error", val |-> Scalar(0)]

\* backend.py from_utc_timestamp: a truthy timestamp becomes a UTC datetime,
\* a falsy one falls off the end of the function (None); float() of a list
\* raises TypeError.
from_utc_timestamp(x) ==
    IF x.isList THEN ConvError
    ELSE IF x.v # 0 THEN DateTimeUTC(x.v)
    ELSE PyNone

\* backend.py to_utc_timestamp: calendar.timegm of the datetime's fields,
\* whether it carries a time zone or not (a naive one is only logged).
to_utc_timestamp(dt) == dt.val

\* Connection.from_primitive with the converters backend.py registers.
from_primitive(x, type_name) ==
    IF type_name \in SQLITE_DATE_TYPES THEN from_utc_timestamp(x) ELSE Raw(x)

Min(a, b) == IF a < b THEN a ELSE b

\* ---------------------------------------------------- reply interpretation
\* The outcome of interpreting one frame: the new _meta_info, whether a row
\* is yielded and which, and the exception raised ("" when none).
Outcome(m, y, r, e, c, msg) ==
    [meta |-> m, yields |-> y, row |-> r, exc |-> e, code |-> c, message |-> msg]

\* Connection._construct_row keeping the first column only.
_construct_row_FirstColumnOnly(meta, data) ==
    LET n == Min(1, Min(Len(meta), Len(data.items)))
        row == [c \in {meta[i].name : i \in 1..n} |->
                   from_primitive(data.items[1], meta[1].type)]
    IN  IF meta = NoMeta
          THEN Outcome(meta, FALSE, <<>>, "TypeError", 0, "")
        ELSE IF \E i \in 1..n : ~meta[i].isList
          THEN Outcome(meta, FALSE, <<>>, "TypeError", 0, "")
        ELSE IF \E c \in DOMAIN row : row[c].kind = "error"
          THEN Outcome(meta, FALSE, <<>>, "TypeError", 0, "")
        ELSE Outcome(meta, TRUE, row, "", 0, "")

\* Connection._construct_row: zip(_meta_info, data), each column description
\* unpacked as (col_name, col_type); a later column of the same name
\* overwrites an earlier one.
_construct_row(meta, data) ==
    LET n == Min(Len(meta), Len(data.items))
        last(c) == CHOOSE i \in 1..n :
                      /\ meta[i].name = c
                      /\ \A j \in 1..n : meta[j].name = c => j <= i
        row == [c \in {meta[i].name : i \in 1..n} |->
                   from_primitive(data.items[last(c)], meta[last(c)].type)]
    IN  IF meta = NoMeta
          THEN Outcome(meta, FALSE, <<>>, "TypeError", 0, "")
        ELSE IF \E i \in 1..n : ~meta[i].isList
          THEN Outcome(meta, FALSE, <<>>, "TypeError", 0, "")
        ELSE IF \E c \in DOMAIN row : row[c].kind = "error"
          THEN Outcome(meta, FALSE, <<>>, "TypeError", 0, "")
        ELSE Outcome(meta, TRUE, row, "", 0, "")

\* Connection._check_status never reading the frame's message.
_check_status_DropsMessage(meta, data) ==
    LET status == IF data.hasStatus THEN data.status ELSE UNKNOWN_ERROR
    IN  IF status # OK
          THEN Outcome(meta, FALSE, <<>>, "OperationalError", status,
                       DEFAULT_MESSAGE)
          ELSE Outcome(meta, FALSE, <<>>, "", 0, "")

\* Connection._check_status
_check_status(meta, data) ==
    LET status == IF data.hasStatus THEN data.status ELSE UNKNOWN_ERROR
        message == IF data.hasMessage THEN data.message ELSE DEFAULT_MESSAGE
    IN  IF status # OK
          THEN Outcome(meta, FALSE, <<>>, "OperationalError", status, message)
          ELSE Outcome(meta, FALSE, <<>>, "", 0, "")

\* Whether _process_reply takes an array for column metadata: it is not empty
\* and its last element is a list.
LooksLikeMeta(data) ==
    /\ ~data.isDict
    /\ Len(data.items) > 0
    /\ data.items[Len(data.items)].isList

\* Connection._process_reply
_process_reply(meta, data) ==
    IF data.isDict THEN _check_status(meta, data)
    ELSE IF LooksLikeMeta(data)
      THEN Outcome(data.items, FALSE, <<>>, "", 0, "")
    ELSE _construct_row(meta, data)

\* The body of the loop of Connection._recv for one decoded object: the reply
\* of _process_reply is yielded only when it is truthy (an empty row is not).
RecvObject(meta, data) ==
    LET o == _process_reply(meta, data)
    IN  [o EXCEPT !.yields = o.yields /\ DOMAIN o.row # {}]

\* ======================================================================
\* State.
\* ======================================================================
VARIABLES
    \* Spec: the ConnectionPool, its connections and the tasks using it.
    maxsize,    \* ConnectionPool._maxsize
    size,       \* ConnectionPool._size
    idle,       \* ConnectionPool._pool, the queue of released connections
    sock,       \* per connection, Connection._socket: "open" or "none"
    closeCalls, \* per connection, how many times close() was called on it
    cmeta,      \* per connection, Connection._meta_info
    pc,         \* per task, where it is
    op,         \* per task, the operation it is in
    held,       \* per task, the connection get() returned to it (0: none)
    gen,        \* per task, the generator of _recv it holds: its state
                \* ("none", "created", "running", "ended") and the connection
                \* it reads
    exc,        \* per task, the exception raised in a transaction's body
    txlog,      \* per task, the commands its transaction issued, with outcome
    last,       \* what the step just taken returned to its caller, if it
                \* ended an operation: the task, the operation, the exception
                \* raised ("" for none) and the transaction's commands
    \* SpecReply: one Connection and the command outstanding on it.
    rsock,      \* Connection._socket: "open", or "none" (closed is true)
    rmeta,      \* Connection._meta_info
    rop,        \* the operation of the last command sent (0: none yet)
    rgen,       \* the generator _command returned: "none", "created" (returned
                \* to the caller, not started), "running", "done", "raised"
    rexc,       \* the exception the last call or the generator raised
    chunk,      \* the buffer being unpacked: "none", "full" (buf_size bytes)
                \* or "short" (fewer)
    seen,       \* the frames the unpacker has handed to _process_reply
    out,        \* the rows the generator has yielded to its consumer
    \* SpecConv: one value taken through the converters.
    cpc,        \* "start" (a datetime to encode), "encoded" (a wire value to
                \* decode) or "decoded"
    cval,       \* the datetime given to to_utc_timestamp, if any
    ctype,      \* the type name of the column the wire value belongs to
    cwire,      \* the value on the wire
    cback,      \* what from_primitive returned for it
    \* SpecFacade: the Database facade and its error handlers.
    handlers,   \* Database._error_handlers
    asked,      \* the callbacks Database.on_error was called with
    invoked,    \* the handler calls the last facade call made: which
                \* callback, with which exception
    fres        \* the last facade call: the operation and what it raised

pvars == <<maxsize, size, idle, sock, closeCalls, cmeta, pc, op, held, gen,
           exc, txlog, last>>

rvars == <<rsock, rmeta, rop, rgen, rexc, chunk, seen, out>>

cvars == <<cpc, cval, ctype, cwire, cback>>

fvars == <<handlers, asked, invoked, fres>>

vars == <<maxsize, size, idle, sock, closeCalls, cmeta, pc, op, held, gen,
          exc, txlog, last,
          rsock, rmeta, rop, rgen, rexc, chunk, seen, out,
          cpc, cval, ctype, cwire, cback,
          handlers, asked, invoked, fres>>

Tasks == 1..NTasks
NoConn == 0
Range(q) == {q[i] : i \in DOMAIN q}

NoExc == [exc |-> "", code |-> 0, message |-> ""]
Exc(e) == [exc |-> e, code |-> 0, message |-> ""]

\* ======================================================================
\* SpecReply: Connection._command, Connection._recv and Socket.recv.
\* ======================================================================
RowFrames ==
    { ArrayFrame(<<>>),
      ArrayFrame(<<Scalar(1)>>),
      ArrayFrame(<<Scalar(2)>>),
      ArrayFrame(<<Scalar(1), Scalar(0)>>),
      ArrayFrame(<<Scalar(2), Scalar(7)>>),
      ArrayFrame(<<Scalar(1), Pair("b", "text")>>) }

Frames ==
    {OkFrame, ErrFrame, ErrNoMessageFrame, NoStatusFrame, MetaA, MetaAB}
        \cup RowFrames

ReplyAtRest ==
    /\ rsock = "open"
    /\ rmeta = NoMeta
    /\ rop = 0
    /\ rgen = "none"
    /\ rexc = NoExc
    /\ chunk = "none"
    /\ seen = <<>>
    /\ out = <<>>

NoGen == [st |-> "none", conn |-> NoConn]
\* A command issued (or a step taken) by an operation, and what it raised.
Issued(cmd, e) == [cmd |-> cmd, exc |-> e]
NoEvent == [task |-> 0, op |-> "", exc |-> "", log |-> <<>>]
Returned(t, o, e, log) == [task |-> t, op |-> o, exc |-> e, log |-> log]

PoolAtRest(n) ==
    /\ maxsize = n
    /\ size = 0
    /\ idle = <<>>
    /\ sock = <<>>
    /\ closeCalls = <<>>
    /\ cmeta = <<>>
    /\ pc = [t \in Tasks |-> "idle"]
    /\ op = [t \in Tasks |-> ""]
    /\ held = [t \in Tasks |-> NoConn]
    /\ gen = [t \in Tasks |-> NoGen]
    /\ exc = [t \in Tasks |-> ""]
    /\ txlog = [t \in Tasks |-> <<>>]
    /\ last = NoEvent

\* No value is being converted.
ConvAtRest ==
    /\ cpc = "decoded"
    /\ cval = PyNone
    /\ ctype = ""
    /\ cwire = Null
    /\ cback = PyNone

\* The class Database as defined: no handler, no call made yet.
FacadeAtRest ==
    /\ handlers = <<>>
    /\ asked = {}
    /\ invoked = <<>>
    /\ fres = [op |-> "", exc |-> ""]

InitReply == ReplyAtRest /\ PoolAtRest(1) /\ ConvAtRest /\ FacadeAtRest

\* Connection._send: the socket's send, which may raise; a closed connection
\* has no socket to call (AttributeError, not a socket error).
SendOutcomes(s) ==
    IF s = "none" THEN {"AttributeError"} ELSE {"", "TransportError"}

\* Connection.execute / Connection.fetch -> _command: the request is sent and
\* the generator of _recv is returned, not started.
RCommand(operation) ==
    /\ rgen \in {"none", "done", "raised"}
    /\ \E e \in SendOutcomes(rsock) :
          /\ rop' = operation
          /\ rexc' = Exc(e)
          /\ rgen' = IF e = "" THEN "created" ELSE "raised"
          /\ rsock' = IF e = "TransportError" THEN "none" ELSE rsock
    /\ chunk' = "none"
    /\ seen' = <<>>
    /\ out' = <<>>
    /\ UNCHANGED rmeta
    /\ UNCHANGED pvars
    /\ UNCHANGED cvars
    /\ UNCHANGED fvars

\* The first next() on the generator: _meta_info = None, then the socket's
\* recv generator is made.
RStart ==
    /\ rgen = "created"
    /\ rmeta' = NoMeta
    /\ IF rsock = "none"
         THEN rgen' = "raised" /\ rexc' = Exc("AttributeError")
         ELSE rgen' = "running" /\ UNCHANGED rexc
    /\ UNCHANGED <<rsock, rop, chunk, seen, out>>
    /\ UNCHANGED pvars
    /\ UNCHANGED cvars
    /\ UNCHANGED fvars

\* Socket.recv: one read of the socket returned a buffer.
RSockRecv(k) ==
    /\ rgen = "running"
    /\ chunk = "none"
    /\ Len(seen) < MaxFrames
    /\ chunk' = k
    /\ UNCHANGED <<rsock, rmeta, rop, rgen, rexc, seen, out>>
    /\ UNCHANGED pvars
    /\ UNCHANGED cvars
    /\ UNCHANGED fvars

\* Socket.recv: the read returned no bytes (the peer closed): the sequence ends.
RSockEmpty ==
    /\ rgen = "running"
    /\ chunk = "none"
    /\ rgen' = "done"
    /\ UNCHANGED <<rsock, rmeta, rop, rexc, chunk, seen, out>>
    /\ UNCHANGED pvars
    /\ UNCHANGED cvars
    /\ UNCHANGED fvars

\* Socket.recv raised socket.error or socket.timeout: _recv drops the socket
\* and re-raises.
RSockFault ==
    /\ rgen = "running"
    /\ chunk = "none"
    /\ rsock' = "none"
    /\ rgen' = "raised"
    /\ rexc' = Exc("TransportError")
    /\ UNCHANGED <<rmeta, rop, chunk, seen, out>>
    /\ UNCHANGED pvars
    /\ UNCHANGED cvars
    /\ UNCHANGED fvars

\* for obj in unpacker: one complete object of the buffer is interpreted.
RUnpack(f) ==
    /\ rgen = "running"
    /\ chunk # "none"
    /\ Len(seen) < MaxFrames
    /\ LET o == RecvObject(rmeta, f)
       IN  /\ seen' = Append(seen, f)
           /\ rmeta' = o.meta
           /\ out' = IF o.yields THEN Append(out, o.row) ELSE out
           /\ IF o.exc # ""
                THEN /\ rgen' = "raised"
                     /\ rexc' = [exc |-> o.exc, code |-> o.code,
                                 message |-> o.message]
                ELSE UNCHANGED <<rgen, rexc>>
    /\ UNCHANGED <<rsock, rop, chunk>>
    /\ UNCHANGED pvars
    /\ UNCHANGED cvars
    /\ UNCHANGED fvars

\* The buffer holds no further complete object: Socket.recv reads again
\* after a full buffer and returns after a short one.
RChunkDone ==
    /\ rgen = "running"
    /\ chunk # "none"
    /\ IF chunk = "short"
         THEN rgen' = "done" /\ UNCHANGED chunk
         ELSE chunk' = "none" /\ UNCHANGED rgen
    /\ UNCHANGED <<rsock, rmeta, rop, rexc, seen, out>>
    /\ UNCHANGED pvars
    /\ UNCHANGED cvars
    /\ UNCHANGED fvars

NextReply ==
    \/ \E operation \in {EXECUTE, EXECUTE_AND_FETCH} : RCommand(operation)
    \/ RStart
    \/ \E k \in {"full", "short"} : RSockRecv(k)
    \/ RSockEmpty
    \/ RSockFault
    \/ \E f \in Frames : RUnpack(f)
    \/ RChunkDone

SpecReply == InitReply /\ [][NextReply]_vars

\* ======================================================================
\* Spec: ConnectionPool under cooperatively scheduled tasks.
\* A task suspends only where the code does blocking I/O or waits on the
\* queue; everything between two suspension points is one action.
\* ======================================================================
Init ==
    /\ \E n \in PoolSizes : PoolAtRest(n)
    /\ ReplyAtRest
    /\ ConvAtRest
    /\ FacadeAtRest

\* The pool as the exit of a scope sees it.
PoolState(q, s, k) == [idle |-> q, sock |-> s, calls |-> k]

\* ConnectionPool.get with the cap compared the wrong way (> for >=).
TakesFromQueue_NoCap(sz, mx, q) == sz > mx \/ Len(q) > 0

\* ConnectionPool.get: whether the caller is sent to the queue (and blocks
\* when it is empty) instead of constructing a connection.
TakesFromQueue(sz, mx, q) == sz >= mx \/ Len(q) > 0

\* ConnectionPool.closeall without its try/except: the drain stops at the
\* first connection whose close() raises.
closeall_StopsAtFirstError(P, closes) ==
    LET raises(c) == P.sock[c] = "none" \/ c \notin closes
        bad == {i \in DOMAIN P.idle : raises(P.idle[i])}
        stop == IF bad = {} THEN Len(P.idle)
                ELSE CHOOSE i \in bad : \A j \in bad : i <= j
        drained == {P.idle[i] : i \in 1..stop}
    IN  [idle |-> SubSeq(P.idle, stop + 1, Len(P.idle)),
         sock |-> [c \in DOMAIN P.sock |->
                     IF c \in drained /\ ~raises(c) THEN "none" ELSE P.sock[c]],
         calls |-> [c \in DOMAIN P.calls |->
                     IF c \in drained THEN P.calls[c] + 1 ELSE P.calls[c]]]

\* ConnectionPool.closeall: every queued connection is taken out and closed,
\* whatever its close() raises.  Connection.close drops the socket when the
\* socket's close() succeeds (c \in closes) and keeps it when that raises; a
\* connection without a socket raises AttributeError.
closeall(P, closes) ==
    [idle |-> <<>>,
     sock |-> [c \in DOMAIN P.sock |->
                 IF c \in Range(P.idle) /\ c \in closes THEN "none"
                 ELSE P.sock[c]],
     calls |-> [c \in DOMAIN P.calls |->
                 IF c \in Range(P.idle) THEN P.calls[c] + 1 ELSE P.calls[c]]]

\* ConnectionPool.connection putting a live connection back in the except
\* clause as well as in the finally clause.
connection_exit_PutsTwice(P, c, e, closes) ==
    IF e # "" /\ P.sock[c] = "none" THEN closeall(P, closes)
    ELSE IF P.sock[c] # "none"
      THEN [P EXCEPT !.idle = IF e # "" THEN Append(Append(P.idle, c), c)
                              ELSE Append(P.idle, c)]
    ELSE P

\* ConnectionPool.connection treating every exception as fatal to the
\* connection: it is dropped and closeall runs.
connection_exit_AnyErrorFatal(P, c, e, closes) ==
    IF e # "" THEN closeall(P, closes)
    ELSE IF P.sock[c] # "none" THEN [P EXCEPT !.idle = Append(P.idle, c)]
    ELSE P

\* ConnectionPool.connection without the `if conn.closed` branch: a dead
\* connection is dropped, the other idle connections are left alone.
connection_exit_NoCloseall(P, c, e, closes) ==
    IF P.sock[c] # "none" THEN [P EXCEPT !.idle = Append(P.idle, c)] ELSE P

\* ConnectionPool.connection, from the end of the protected block on: e is
\* the exception that left the block ("" for none), c the connection.
connection_exit(P, c, e, closes) ==
    IF e # "" /\ P.sock[c] = "none" THEN closeall(P, closes)
    ELSE IF P.sock[c] # "none" THEN [P EXCEPT !.idle = Append(P.idle, c)]
    ELSE P

\* The scope of task t ends with exception e, the sockets being s; the
\* operation returns (or raises e) to its caller.
ExitScope(t, o, s, e, log) ==
    /\ \E closes \in SUBSET Range(idle) :
          LET Q == connection_exit(PoolState(idle, s, closeCalls), held[t], e,
                                   closes)
          IN  /\ idle' = Q.idle
              /\ sock' = Q.sock
              /\ closeCalls' = Q.calls
    /\ held' = [held EXCEPT ![t] = NoConn]
    /\ last' = Returned(t, o, e, log)
    /\ exc' = [exc EXCEPT ![t] = ""]
    /\ txlog' = [txlog EXCEPT ![t] = <<>>]
    /\ IF o = "fetch" /\ e = ""
         THEN /\ pc' = [pc EXCEPT ![t] = "lazy"]
              /\ op' = [op EXCEPT ![t] = o]
         ELSE /\ pc' = [pc EXCEPT ![t] = "idle"]
              /\ op' = [op EXCEPT ![t] = ""]

\* The scope of task t goes on, in operation o.
StayInScope(t, o, s) ==
    /\ sock' = s
    /\ op' = [op EXCEPT ![t] = o]
    /\ last' = NoEvent
    /\ UNCHANGED <<idle, closeCalls, held, pc, exc, txlog>>

\* A task enters `with pool.connection()`: ConnectionPool.get up to its first
\* suspension point.  Which operation the scope belongs to (op) shows in the
\* first step of its protected block.
Acquire(t) ==
    /\ pc[t] = "idle"
    /\ last' = NoEvent
    /\ IF TakesFromQueue(size, maxsize, idle)
         THEN /\ UNCHANGED size
              /\ IF Len(idle) > 0
                   THEN /\ held' = [held EXCEPT ![t] = Head(idle)]
                        /\ idle' = Tail(idle)
                        /\ pc' = [pc EXCEPT ![t] = "body"]
                   ELSE /\ pc' = [pc EXCEPT ![t] = "waiting"]
                        /\ UNCHANGED <<held, idle>>
         ELSE /\ size' = size + 1
              /\ pc' = [pc EXCEPT ![t] = "constructing"]
              /\ UNCHANGED <<held, idle>>
    /\ UNCHANGED <<maxsize, sock, closeCalls, cmeta, op, gen, exc, txlog>>
    /\ UNCHANGED rvars
    /\ UNCHANGED cvars
    /\ UNCHANGED fvars

\* _create_connection returned a connection.
ConstructOk(t) ==
    /\ pc[t] = "constructing"
    /\ sock' = Append(sock, "open")
    /\ closeCalls' = Append(closeCalls, 0)
    /\ cmeta' = Append(cmeta, NoMeta)
    /\ held' = [held EXCEPT ![t] = Len(sock) + 1]
    /\ pc' = [pc EXCEPT ![t] = "body"]
    /\ last' = NoEvent
    /\ UNCHANGED <<maxsize, size, idle, op, gen, exc, txlog>>
    /\ UNCHANGED rvars
    /\ UNCHANGED cvars
    /\ UNCHANGED fvars

\* ConnectionPool.get without `self._size -= 1` in its except clause.
ConstructFail_KeepsSize(t) ==
    /\ pc[t] = "constructing"
    /\ pc' = [pc EXCEPT ![t] = "idle"]
    /\ last' = Returned(t, "get", "ConstructionError", <<>>)
    /\ UNCHANGED <<maxsize, size, idle, sock, closeCalls, cmeta, op, held, gen,
                   exc, txlog>>
    /\ UNCHANGED rvars
    /\ UNCHANGED cvars
    /\ UNCHANGED fvars

\* _create_connection raised: _size is given back and the error re-raised.
ConstructFail(t) ==
    /\ pc[t] = "constructing"
    /\ size' = size - 1
    /\ pc' = [pc EXCEPT ![t] = "idle"]
    /\ last' = Returned(t, "get", "ConstructionError", <<>>)
    /\ UNCHANGED <<maxsize, idle, sock, closeCalls, cmeta, op, held, gen, exc,
                   txlog>>
    /\ UNCHANGED rvars
    /\ UNCHANGED cvars
    /\ UNCHANGED fvars

\* Queue.get peeking at the queue instead of popping it.
Wake_LeavesQueued(t) ==
    /\ pc[t] = "waiting"
    /\ Len(idle) > 0
    /\ held' = [held EXCEPT ![t] = Head(idle)]
    /\ pc' = [pc EXCEPT ![t] = "body"]
    /\ last' = NoEvent
    /\ UNCHANGED <<maxsize, size, idle, sock, closeCalls, cmeta, op, gen, exc,
                   txlog>>
    /\ UNCHANGED rvars
    /\ UNCHANGED cvars
    /\ UNCHANGED fvars

\* Queue.get returns to a blocked getter once the queue holds a connection.
Wake(t) ==
    /\ pc[t] = "waiting"
    /\ Len(idle) > 0
    /\ held' = [held EXCEPT ![t] = Head(idle)]
    /\ idle' = Tail(idle)
    /\ pc' = [pc EXCEPT ![t] = "body"]
    /\ last' = NoEvent
    /\ UNCHANGED <<maxsize, size, sock, closeCalls, cmeta, op, gen, exc,
                   txlog>>
    /\ UNCHANGED rvars
    /\ UNCHANGED cvars
    /\ UNCHANGED fvars

\* The frames a reply may carry in Spec.
PoolFrames == {MetaA, ArrayFrame(<<Scalar(1)>>), OkFrame, ErrFrame}

\* One step of the generator of Connection._recv on a connection whose
\* _meta_info is m and whose socket is s.  kind "start" is the first next()
\* (_meta_info = None, then self._socket.recv()), "frame" one decoded object,
\* "fault" a socket.error or socket.timeout out of the read (the socket is
\* dropped and the error re-raised), "end" the end of Socket.recv.
GenStep(m, s, kind, f) ==
    CASE kind = "start" ->
           [gen |-> IF s = "none" THEN "ended" ELSE "running", meta |-> NoMeta,
            sock |-> s, exc |-> IF s = "none" THEN "AttributeError" ELSE ""]
      [] kind = "frame" ->
           LET o == RecvObject(m, f)
           IN  [gen |-> IF o.exc # "" THEN "ended" ELSE "running",
                meta |-> o.meta, sock |-> s, exc |-> o.exc]
      [] kind = "fault" ->
           [gen |-> "ended", meta |-> m, sock |-> "none",
            exc |-> "TransportError"]
      [] OTHER ->
           [gen |-> "ended", meta |-> m, sock |-> s, exc |-> ""]

GenEnabled(g, kind) ==
    \/ g = "created" /\ kind = "start"
    \/ g = "running" /\ kind \in {"frame", "fault", "end"}

\* The sockets after Connection._send on connection c ended with e.
AfterSend(c, e) ==
    IF e = "TransportError" THEN [sock EXCEPT ![c] = "none"] ELSE sock

\* conn.execute(sql) / conn.fetch(sql) inside the scope: Connection._command.
\* ConnectionPool.fetch returns the generator at once, which ends its scope.
BodySend(t, o) ==
    /\ pc[t] = "body"
    /\ op[t] = ""
    /\ \E e \in SendOutcomes(sock[held[t]]) :
          LET s1 == AfterSend(held[t], e)
          IN  IF e # ""
                THEN /\ ExitScope(t, o, s1, e, <<Issued("send", e)>>)
                     /\ UNCHANGED gen
              ELSE /\ gen' = [gen EXCEPT ![t] =
                                  [st |-> "created", conn |-> held[t]]]
                   /\ IF o = "fetch"
                        THEN ExitScope(t, o, s1, "", <<Issued("send", "")>>)
                        ELSE StayInScope(t, o, s1)
    /\ UNCHANGED <<maxsize, size, cmeta>>
    /\ UNCHANGED rvars
    /\ UNCHANGED cvars
    /\ UNCHANGED fvars

\* The protected block consumes the row sequence: one step of the generator.
\* An exception leaves the block; list() in ConnectionPool.execute returns
\* when the sequence ends.
BodyNext(t, kind, f) ==
    /\ pc[t] = "body"
    /\ op[t] \in {"scope", "execute"}
    /\ GenEnabled(gen[t].st, kind)
    /\ LET c == gen[t].conn
           r == GenStep(cmeta[c], sock[c], kind, f)
           s1 == [sock EXCEPT ![c] = r.sock]
       IN  /\ cmeta' = [cmeta EXCEPT ![c] = r.meta]
           /\ IF r.exc # "" \/ (r.gen = "ended" /\ op[t] = "execute")
                THEN /\ ExitScope(t, op[t], s1, r.exc, <<Issued("recv", r.exc)>>)
                     /\ gen' = [gen EXCEPT ![t] = NoGen]
                ELSE /\ StayInScope(t, op[t], s1)
                     /\ gen' = [gen EXCEPT ![t].st = r.gen]
    /\ UNCHANGED <<maxsize, size>>
    /\ UNCHANGED rvars
    /\ UNCHANGED cvars
    /\ UNCHANGED fvars

\* The protected block of a caller raises an exception of its own.
ScopeRaise(t) ==
    /\ pc[t] = "body"
    /\ op[t] \in {"", "scope"}
    /\ ExitScope(t, "scope", sock, "AppError", <<>>)
    /\ gen' = [gen EXCEPT ![t] = NoGen]
    /\ UNCHANGED <<maxsize, size, cmeta>>
    /\ UNCHANGED rvars
    /\ UNCHANGED cvars
    /\ UNCHANGED fvars

\* The protected block of a caller ends.
ScopeLeave(t) ==
    /\ pc[t] = "body"
    /\ op[t] \in {"", "scope"}
    /\ ExitScope(t, "scope", sock, "", <<>>)
    /\ gen' = [gen EXCEPT ![t] = NoGen]
    /\ UNCHANGED <<maxsize, size, cmeta>>
    /\ UNCHANGED rvars
    /\ UNCHANGED cvars
    /\ UNCHANGED fvars

\* The caller of ConnectionPool.fetch consumes the row sequence it was
\* returned, after the scope that made it has ended.
LazyNext(t, kind, f) ==
    /\ pc[t] = "lazy"
    /\ GenEnabled(gen[t].st, kind)
    /\ LET c == gen[t].conn
           r == GenStep(cmeta[c], sock[c], kind, f)
       IN  /\ cmeta' = [cmeta EXCEPT ![c] = r.meta]
           /\ sock' = [sock EXCEPT ![c] = r.sock]
           /\ IF r.gen = "ended"
                THEN /\ gen' = [gen EXCEPT ![t] = NoGen]
                     /\ pc' = [pc EXCEPT ![t] = "idle"]
                     /\ op' = [op EXCEPT ![t] = ""]
                     /\ last' = Returned(t, "rows", r.exc, <<>>)
                ELSE /\ gen' = [gen EXCEPT ![t].st = r.gen]
                     /\ last' = NoEvent
                     /\ UNCHANGED <<pc, op>>
    /\ UNCHANGED <<maxsize, size, idle, closeCalls, held, exc, txlog>>
    /\ UNCHANGED rvars
    /\ UNCHANGED cvars
    /\ UNCHANGED fvars

\* The caller of ConnectionPool.fetch drops the row sequence.
LazyDrop(t) ==
    /\ pc[t] = "lazy"
    /\ gen' = [gen EXCEPT ![t] = NoGen]
    /\ pc' = [pc EXCEPT ![t] = "idle"]
    /\ op' = [op EXCEPT ![t] = ""]
    /\ last' = NoEvent
    /\ UNCHANGED <<maxsize, size, idle, sock, closeCalls, cmeta, held, exc, txlog>>
    /\ UNCHANGED rvars
    /\ UNCHANGED cvars
    /\ UNCHANGED fvars

\* cursor.execute(sql) run to its end on a connection whose socket is s: it
\* returns, or raises the server's error or the transport's; a connection
\* without a socket cannot send.
CommandOutcomes(s) ==
    IF s = "none" THEN {"AttributeError"}
    ELSE {"", "OperationalError", "TransportError"}

\* What the protected body of a transaction can end with.
BodyOutcomes(s) ==
    {"", "AppError"} \cup (CommandOutcomes(s) \ {""})

\* Backend.transaction without its except clause: COMMIT whatever happened.
TxClosingCommand_AlwaysCommit(bodyExc) == "COMMIT"

\* Backend.transaction: the command that ends the transaction whose body
\* ended with bodyExc ("": normally).
TxClosingCommand(bodyExc) == IF bodyExc = "" THEN "COMMIT" ELSE "ROLLBACK"

\* Backend.transaction: what leaves the transaction, e being what the
\* closing command raised.
TxRaises(bodyExc, e) == IF e # "" THEN e ELSE bodyExc

\* Backend.transaction: cursor.execute('BEGIN;')
TxBegin(t) ==
    /\ pc[t] = "body"
    /\ op[t] = ""
    /\ \E e \in CommandOutcomes(sock[held[t]]) :
          LET log == Append(txlog[t], Issued("BEGIN", e))
          IN  IF e # ""
                THEN ExitScope(t, "transaction", AfterSend(held[t], e), e, log)
                ELSE /\ pc' = [pc EXCEPT ![t] = "txbody"]
                     /\ op' = [op EXCEPT ![t] = "transaction"]
                     /\ txlog' = [txlog EXCEPT ![t] = log]
                     /\ last' = NoEvent
                     /\ UNCHANGED <<idle, sock, closeCalls, held, exc>>
    /\ UNCHANGED <<maxsize, size, cmeta, gen>>
    /\ UNCHANGED rvars
    /\ UNCHANGED cvars
    /\ UNCHANGED fvars

\* The protected body of the transaction runs to its end or raises.
TxBody(t) ==
    /\ pc[t] = "txbody"
    /\ \E e \in BodyOutcomes(sock[held[t]]) :
          /\ exc' = [exc EXCEPT ![t] = e]
          /\ sock' = AfterSend(held[t], e)
    /\ pc' = [pc EXCEPT ![t] = "txend"]
    /\ last' = NoEvent
    /\ UNCHANGED <<maxsize, size, idle, closeCalls, cmeta, op, held, gen,
                   txlog>>
    /\ UNCHANGED rvars
    /\ UNCHANGED cvars
    /\ UNCHANGED fvars

\* Backend.transaction: ROLLBACK and re-raise after an exception, COMMIT
\* otherwise; then the scope of the connection ends.
TxEnd(t) ==
    /\ pc[t] = "txend"
    /\ \E e \in CommandOutcomes(sock[held[t]]) :
          ExitScope(t, "transaction", AfterSend(held[t], e),
                    TxRaises(exc[t], e),
                    Append(txlog[t], Issued(TxClosingCommand(exc[t]), e)))
    /\ UNCHANGED <<maxsize, size, cmeta, gen>>
    /\ UNCHANGED rvars
    /\ UNCHANGED cvars
    /\ UNCHANGED fvars

\* Backend.close -> ConnectionPool.closeall; the log tells, per connection
\* drained, whether its close() raised.
CloseAllCall(t) ==
    /\ pc[t] = "idle"
    /\ \E closes \in SUBSET Range(idle) :
          LET Q == closeall(PoolState(idle, sock, closeCalls), closes)
          IN  /\ idle' = Q.idle
              /\ sock' = Q.sock
              /\ closeCalls' = Q.calls
              /\ last' = Returned(t, "close", "",
                     [i \in DOMAIN idle |->
                        Issued("close",
                               IF sock[idle[i]] = "none" THEN "AttributeError"
                               ELSE IF idle[i] \in closes THEN ""
                               ELSE "socket.error")])
    /\ UNCHANGED <<maxsize, size, cmeta, pc, op, held, gen, exc, txlog>>
    /\ UNCHANGED rvars
    /\ UNCHANGED cvars
    /\ UNCHANGED fvars

Next ==
    \/ \E t \in Tasks : Acquire(t)
    \/ \E t \in Tasks : ConstructOk(t)
    \/ \E t \in Tasks : ConstructFail(t)
    \/ \E t \in Tasks : Wake(t)
    \/ \E t \in Tasks, o \in {"scope", "execute", "fetch"} : BodySend(t, o)
    \/ \E t \in Tasks : BodyNext(t, "start", OkFrame)
    \/ \E t \in Tasks, f \in PoolFrames : BodyNext(t, "frame", f)
    \/ \E t \in Tasks : BodyNext(t, "fault", OkFrame)
    \/ \E t \in Tasks : BodyNext(t, "end", OkFrame)
    \/ \E t \in Tasks : ScopeRaise(t)
    \/ \E t \in Tasks : ScopeLeave(t)
    \/ \E t \in Tasks : LazyNext(t, "start", OkFrame)
    \/ \E t \in Tasks, f \in PoolFrames : LazyNext(t, "frame", f)
    \/ \E t \in Tasks : LazyNext(t, "fault", OkFrame)
    \/ \E t \in Tasks : LazyNext(t, "end", OkFrame)
    \/ \E t \in Tasks : LazyDrop(t)
    \/ \E t \in Tasks : TxBegin(t)
    \/ \E t \in Tasks : TxBody(t)
    \/ \E t \in Tasks : TxEnd(t)
    \/ \E t \in Tasks : CloseAllCall(t)

Spec == Init /\ [][Next]_vars

\* The hub runs a blocked getter once the queue holds a connection for it.
LiveSpec == Spec /\ \A t \in Tasks : WF_vars(Wake(t))

\* ======================================================================
\* SpecConv: the converters backend.py registers, applied to one value.
\* ======================================================================
Instants == 0..MaxSecs

\* The datetimes handed to the encoder.
DateTimes ==
    {DateTimeUTC(n) : n \in Instants} \cup {DateTimeNaive(n) : n \in Instants}

\* The values a column can carry on the wire.
WireValues ==
    {Scalar(n) : n \in Instants} \cup {Null, EmptyText, Pair("a", "integer")}

ColumnTypes == SQLITE_DATE_TYPES \cup {"integer"}

InitConv ==
    /\ PoolAtRest(1)
    /\ ReplyAtRest
    /\ FacadeAtRest
    /\ ctype \in ColumnTypes
    /\ cback = PyNone
    /\ \/ cpc = "start" /\ cval \in DateTimes /\ cwire = Null
       \/ cpc = "encoded" /\ cval = PyNone /\ cwire \in WireValues

\* to_primitive on a datetime.datetime: to_utc_timestamp.
CEncode ==
    /\ cpc = "start"
    /\ cwire' = to_utc_timestamp(cval)
    /\ cpc' = "encoded"
    /\ UNCHANGED <<cval, ctype, cback>>
    /\ UNCHANGED pvars
    /\ UNCHANGED rvars
    /\ UNCHANGED fvars

\* from_primitive on the value of a column of type ctype.
CDecode ==
    /\ cpc = "encoded"
    /\ cback' = from_primitive(cwire, ctype)
    /\ cpc' = "decoded"
    /\ UNCHANGED <<cval, ctype, cwire>>
    /\ UNCHANGED pvars
    /\ UNCHANGED rvars
    /\ UNCHANGED fvars

NextConv ==
    \/ CEncode
    \/ CDecode

SpecConv == InitConv /\ [][NextConv]_vars

\* ======================================================================
\* SpecFacade: Database.on_error and the guard around the facade's
\* operations (squery.py).
\* ======================================================================
Callbacks == 1..NCallbacks

\* The operations of Database decorated with @guard.
GuardedOps ==
    {"execute", "executemany", "executescript", "fetchone", "fetchall",
     "fetchiter", "transaction", "close", "recreate"}

\* What the backend's method can end with ("": it returns).
BackendOutcomes == {"", "OperationalError", "TransportError"}

\* Database.guard, the except clause: every function of _error_handlers is
\* called with the exception, in order, and the exception is re-raised.
guard(hs, e) ==
    IF e = "" THEN <<>> ELSE [i \in DOMAIN hs |-> [fn |-> hs[i], exc |-> e]]

\* Database.on_error(callback): cls._on_error.append(callback).  The class
\* has no attribute _on_error (its list is _error_handlers), so the lookup
\* raises AttributeError and nothing is appended anywhere.
FOnError(cb) ==
    /\ asked' = asked \cup {cb}
    /\ fres' = [op |-> "on_error", exc |-> "AttributeError"]
    /\ invoked' = <<>>
    /\ UNCHANGED handlers
    /\ UNCHANGED pvars
    /\ UNCHANGED rvars
    /\ UNCHANGED cvars

\* A guarded operation o whose backend method ends with e.
FGuarded(o, e) ==
    /\ invoked' = guard(handlers, e)
    /\ fres' = [op |-> o, exc |-> e]
    /\ UNCHANGED <<handlers, asked>>
    /\ UNCHANGED pvars
    /\ UNCHANGED rvars
    /\ UNCHANGED cvars

NextFacade ==
    \/ \E cb \in Callbacks : FOnError(cb)
    \/ \E o \in GuardedOps, e \in BackendOutcomes : FGuarded(o, e)

InitFacade == PoolAtRest(1) /\ ReplyAtRest /\ ConvAtRest /\ FacadeAtRest

SpecFacade == InitFacade /\ [][NextFacade]_vars

\* ======================================================================
\* Claims.
\* ======================================================================

\* C1: for a pool with maxsize = N, under every interleaving of acquirers
\* (suspended constructions, construction failures, releases, discards,
\* closeall), _size and the number of connections constructed are at most N.
C1_SizeAtMostMaxsize ==
    /\ size <= maxsize
    /\ Len(sock) <= maxsize
    /\ size >= 0

\* A task is suspended inside construction at the cap while another acquirer
\* is blocked on the queue.
C1_Witness ==
    /\ size = maxsize
    /\ \E t1, t2 \in Tasks : pc[t1] = "constructing" /\ pc[t2] = "waiting"

C3_TransportFaultDiscards ==
    [][\A t \in Tasks :
         LET c == held[t]
             consuming == /\ pc[t] = "body"
                          /\ op[t] = "scope"
                          /\ gen[t].st \in {"created", "running"}
             faulted == \/ sock[c] = "open" /\ sock'[c] = "none"
                        \/ (pc'[t] # "body" /\ last'.exc = "TransportError")
         IN  (consuming /\ pc'[t] # pc[t] /\ faulted) =>
                /\ sock'[c] = "none"
                /\ last' = Returned(t, "scope", "TransportError",
                                    <<Issued("recv", "TransportError")>>)
                /\ idle' = <<>>
                /\ \A t2 \in Tasks : held'[t2] # c
                /\ \A c2 \in Range(idle) : closeCalls'[c2] = closeCalls[c2] + 1
       ]_vars

\* A scope has just ended with the transport's exception out of the row
\* sequence, and another connection, idle at that moment, was closed.
C3_Witness ==
    /\ last.op = "scope"
    /\ last.exc = "TransportError"
    /\ last.log = <<Issued("recv", "TransportError")>>
    /\ idle = <<>>
    /\ \E c \in DOMAIN sock : closeCalls[c] = 1

\* C4: no connection in the idle set is dead.
C4_NoDeadConnectionIdle ==
    \A i \in DOMAIN idle : sock[idle[i]] # "none"

\* C5: no connection is in the idle set, or held by another task, while a row
\* sequence made on it is still unconsumed.
C5_OneOwnerPerConnection ==
    \A t \in Tasks :
       gen[t].st \in {"created", "running"} =>
          /\ gen[t].conn \notin Range(idle)
          /\ \A t2 \in Tasks : t2 # t => held[t2] # gen[t].conn

\* C6: a reply of one column-metadata frame, K >= 0 row frames (one scalar
\* per column) and one OK status frame makes the row sequence produce exactly
\* K rows, in the order of the frames, each holding every column the
\* metadata names.
C6_MetaRowsOkYieldsKRows ==
    LET n == Len(seen)
        m == seen[1].items
        cols == {m[j].name : j \in DOMAIN m}
        IsMeta(f) == /\ ~f.isDict
                     /\ Len(f.items) > 0
                     /\ \A j \in DOMAIN f.items : f.items[j].isList
        IsRow(f) == /\ ~f.isDict
                    /\ Len(f.items) = Len(m)
                    /\ \A j \in DOMAIN f.items : ~f.items[j].isList
    IN  (/\ n >= 2
         /\ IsMeta(seen[1])
         /\ \A i \in 2..(n - 1) : IsRow(seen[i])
         /\ seen[n] = OkFrame)
        => /\ Len(out) = n - 2
           /\ rexc = NoExc \/ rexc.exc = "TransportError"
           /\ \A i \in 1..(n - 2) :
                 /\ DOMAIN out[i] = cols
                 /\ \A j \in DOMAIN m :
                       m[j].type = "integer" =>
                          out[i][m[j].name] = Raw(seen[i + 1].items[j])

\* Two columns, two rows, OK: two rows were produced.
C6_Witness ==
    /\ seen = <<MetaAB, ArrayFrame(<<Scalar(1), Scalar(0)>>),
                ArrayFrame(<<Scalar(2), Scalar(7)>>), OkFrame>>
    /\ Len(out) = 2
    /\ rop = EXECUTE_AND_FETCH

\* C7: a status frame whose status is not OK, at any position of a reply,
\* raises OperationalError with the frame's status code and its message
\* ("Unknown error." when it has none); the step that raises takes no row
\* back, and no row is produced after it.
C7_NonOkStatusRaises ==
    /\ [](\A i \in DOMAIN seen :
            (seen[i].isDict /\ seen[i].hasStatus /\ seen[i].status # OK) =>
               /\ i = Len(seen)
               /\ rgen = "raised"
               /\ rexc = [exc |-> "OperationalError",
                          code |-> seen[i].status,
                          message |-> IF seen[i].hasMessage
                                        THEN seen[i].message
                                        ELSE DEFAULT_MESSAGE])
    /\ [][/\ (rgen' = "raised" /\ Len(seen') = Len(seen) + 1) => out' = out
          /\ rgen = "raised" => (out' = out \/ out' = <<>>)
          /\ (rgen = "raised" /\ seen' # seen) => seen' = <<>>]_vars

\* A row was delivered, then a failure status without a message raised.
C7_Witness ==
    /\ seen = <<MetaA, ArrayFrame(<<Scalar(1)>>), ErrNoMessageFrame>>
    /\ Len(out) = 1
    /\ rgen = "raised"
    /\ rexc = [exc |-> "OperationalError", code |-> INVALID_QUERY,
               message |-> DEFAULT_MESSAGE]

\* C8: when Connection.execute has returned to its caller without raising,
\* the status frame that terminates its reply has been seen.
C8_ExecuteReturnsAfterStatus ==
    (rop = EXECUTE /\ rgen = "created" /\ rexc = NoExc) =>
       \E i \in DOMAIN seen : seen[i].isDict

\* C9: closeall calls close on every idle connection whatever each close
\* raises, leaves the idle set empty, raises nothing, and leaves the
\* connections that are checked out as they were.
C9_CloseAllSwallowsErrors ==
    [][last'.op = "close" =>
         /\ idle' = <<>>
         /\ last'.exc = ""
         /\ Len(last'.log) = Len(idle)
         /\ held' = held
         /\ \A c \in DOMAIN sock :
               IF c \in Range(idle)
                 THEN closeCalls'[c] = closeCalls[c] + 1
                 ELSE closeCalls'[c] = closeCalls[c] /\ sock'[c] = sock[c]
      ]_vars

\* closeall has drained two connections: the close of one raised, the close
\* of the other did not, and both were called.
C9_Witness ==
    /\ last.op = "close"
    /\ idle = <<>>
    /\ Len(last.log) = 2
    /\ \E i, j \in DOMAIN last.log :
          last.log[i].exc # "" /\ last.log[j].exc = ""
    /\ \A c \in DOMAIN closeCalls : closeCalls[c] >= 1

C11_DatetimeRoundTrip ==
    (/\ cpc = "decoded"
     /\ cval.kind = "datetime"
     /\ ctype \in SQLITE_DATE_TYPES) => cback = cval

\* C17: the converter of a date, datetime or timestamp column returns a
\* UTC-aware datetime for a truthy wire value and the wire value itself for a
\* falsy one (0, the empty string, null).
C17_FalsyReturnedAsIs ==
    (/\ cpc = "decoded"
     /\ ctype \in SQLITE_DATE_TYPES
     /\ ~cwire.isList) =>
        IF cwire.v # 0 THEN cback = DateTimeUTC(cwire.v)
        ELSE IF cwire = Null THEN cback = PyNone
        ELSE cback = Raw(cwire)

\* C12: on exit of a scoped acquisition the connection is put back in the
\* idle set once, at its tail, if it is alive, and is not put back if it is
\* dead; it is held by nobody afterwards; and no connection is ever twice in
\* the idle set.
C12_ReleasedOrDiscardedOnce ==
    /\ [](\A i, j \in DOMAIN idle : idle[i] = idle[j] => i = j)
    /\ [][\A t \in Tasks :
            (held[t] # NoConn /\ held'[t] = NoConn) =>
               LET c == held[t]
               IN  /\ \A t2 \in Tasks : held'[t2] # c
                   /\ IF sock'[c] = "open"
                        THEN idle' = Append(idle, c)
                        ELSE c \notin Range(idle')
         ]_vars

\* A scope ended by an exception of its caller, with a live connection: it is
\* idle again, next to another idle connection.
C12_Witness ==
    /\ last.op = "scope"
    /\ last.exc = "AppError"
    /\ Len(idle) = 2
    /\ idle[1] # idle[2]
    /\ \A c \in DOMAIN sock : sock[c] = "open"

\* C13: when an operation inside a scoped acquisition ends with
\* OperationalError on a connection that has its socket, the connection keeps
\* the socket and goes to the tail of the idle set, and closeall does not run:
\* the other idle connections stay where they were, no close() is called.
C13_OperationalErrorKeepsConnection ==
    [][\A t \in Tasks :
         (/\ held[t] # NoConn
          /\ sock[held[t]] = "open"
          /\ last'.task = t
          /\ last'.exc = "OperationalError") =>
            /\ sock' = sock
            /\ closeCalls' = closeCalls
            /\ idle' = Append(idle, held[t])
            /\ held'[t] = NoConn
            /\ pc'[t] = "idle"
      ]_vars

\* ConnectionPool.execute raised OperationalError: both connections of the
\* pool are idle, open and were never closed.
C13_Witness ==
    /\ last.op = "execute"
    /\ last.exc = "OperationalError"
    /\ Len(idle) = 2
    /\ \A c \in DOMAIN sock : sock[c] = "open" /\ closeCalls[c] = 0

\* C14: a construction that fails gives the acquire its error, takes _size
\* back by the one it had added and leaves the idle set and the connections
\* alone; at all times _size counts the connections constructed plus the
\* constructions in progress, whatever other acquirers did meanwhile.
C14_ConstructionFailureRestoresSize ==
    /\ [](size = Len(sock)
                   + Cardinality({t \in Tasks : pc[t] = "constructing"}))
    /\ [][\A t \in Tasks :
            (pc[t] = "constructing" /\ pc'[t] = "idle") =>
               /\ last' = Returned(t, "get", "ConstructionError", <<>>)
               /\ size' = size - 1
               /\ idle' = idle
               /\ sock' = sock
               /\ held' = held
         ]_vars

\* A construction has just failed while another task, which acquired during
\* the suspension, holds a connection: one slot of two is free again.
C14_Witness ==
    /\ last.exc = "ConstructionError"
    /\ maxsize = 2
    /\ size = 1
    /\ \E t \in Tasks : held[t] # NoConn /\ t # last.task

\* C15: within one reply, once a column-metadata frame has been cached, every
\* later array frame is produced as a row, whatever its values are: as long
\* as nothing was raised, there are as many rows as array frames after the
\* metadata.
C15_ArraysAfterMetaAreRows ==
    (/\ Len(seen) >= 2
     /\ LooksLikeMeta(seen[1])
     /\ \A j \in DOMAIN seen[1].items : seen[1].items[j].isList
     /\ \A i \in 2..Len(seen) : ~seen[i].isDict
     /\ rexc = NoExc) => Len(out) = Len(seen) - 1

\* C16: a frame that does not fit the state of the reply (a row arriving
\* before any column metadata: TypeError out of _construct_row) is fatal to
\* the connection: it is marked dead and is not put back in the idle set.
C16_BadFrameKillsConnection ==
    [][\A t \in Tasks :
         (/\ held[t] # NoConn
          /\ last'.task = t
          /\ last'.exc = "TypeError") =>
            /\ sock'[held[t]] = "none"
            /\ held[t] \notin Range(idle')
      ]_vars

\* C18: a row sequence ends without error only after the status frame that
\* terminates the reply has been interpreted, and is ended once that frame has
\* been interpreted, without a further read.
C18_EndsAtStatusFrame ==
    /\ rgen = "done" => \E i \in DOMAIN seen : seen[i].isDict
    /\ (\E i \in DOMAIN seen : seen[i].isDict) => rgen \in {"done", "raised"}

\* C19: whenever no connection is checked out and none is being constructed,
\* an acquire can be served, from the idle set or by a construction the cap
\* allows, and so does not block with nobody left to release a connection to
\* it: discards of dead connections and closeall do not use up the pool.
C19_AcquireNotStuck ==
    (\A t \in Tasks : held[t] = NoConn /\ pc[t] # "constructing") =>
       (idle # <<>> \/ size < maxsize)

\* C20: when a guarded operation of the facade raises, every callback that
\* was registered with Database.on_error has been called exactly once with
\* that exception, and the exception reaches the caller.
C20_HandlersCalledOnce ==
    (fres.op \in GuardedOps /\ fres.exc # "") =>
       \A cb \in asked :
          Cardinality({i \in DOMAIN invoked :
                          invoked[i] = [fn |-> cb, exc |-> fres.exc]}) = 1

====
